---- MODULE Spec2Model ----
(***************************************************************************)
(* MPU6500 register-level driver (mpu6500.h / mpu6500.c).                  *)
(*                                                                         *)
(* The driver is single-threaded and blocking: one public operation runs   *)
(* from its first bus access to its return before the next one starts.     *)
(* Every action below is one call of one public operation.  The transport  *)
(* of a call is described by its inputs: the index of the bus access that  *)
(* fails (0: none), the status that access returns, and the bytes the      *)
(* device supplies for reads of its volatile registers (sensor outputs,    *)
(* identity).  The call log of the last operation is kept in `last`.       *)
(*                                                                         *)
(* TLC integers are 32-bit signed; unsigned 32-bit quantities are kept as  *)
(* two base-65536 digits (see U32Div).                                     *)
(***************************************************************************)
EXTENDS Integers, Sequences, FiniteSets, TLC

VARIABLES regs, accel_offset, gyro_offset, last, cal, thr

vars == <<regs, accel_offset, gyro_offset, last, cal, thr>>

(***************************************************************************)
(* Bounds of the model.                                                    *)
(***************************************************************************)
\* largest sample count passed to MPU6500_InitOffsetCalibration
MaxSamples == 3

(***************************************************************************)
(* Register map and configuration constants.                               *)
(***************************************************************************)
CONFIG == 26
GYRO_CONFIG == 27
ACCEL_CONFIG == 28
ACCEL_CONFIG_2 == 29
INT_PIN_CFG == 55
INT_ENABLE == 56
ACCEL_XOUT_H == 59
TEMP_OUT_H == 65
GYRO_XOUT_H == 67
PWR_MGMT_1 == 107
WHO_AM_I == 117

\* variant: the range code of +-16 g (MPU6500_ACCEL_FS_16G) with the
\* sensitivity of +-4 g
MPU6500_DEFAULT_ACCEL_CONFIG_16G == 16 + 8

MPU6500_DEFAULT_ACCEL_CONFIG == 8
MPU6500_DEFAULT_GYRO_CONFIG == 8
\* MPU6500_ACCEL_SENS_4G = 8192.0f, selected by the #if chain
MPU6500_ACCEL_SENS == 8192
\* MPU6500_GYRO_SENS_500DPS = 65.5f, kept as tenths (655 / 10)
MPU6500_GYRO_SENS_x10 == 655

HAL_OK == "HAL_OK"
HAL_ERROR == "HAL_ERROR"
HAL_BUSY == "HAL_BUSY"
HAL_TIMEOUT == "HAL_TIMEOUT"
\* the non-OK values of HAL_StatusTypeDef the transport can return
TransportErrors == {HAL_ERROR, HAL_BUSY, HAL_TIMEOUT}

(***************************************************************************)
(* C integer arithmetic.                                                   *)
(***************************************************************************)
\* conversion of an int to int16_t (two's complement, modulo 2^16)
Int16(x) == ((x + 32768) % 65536) - 32768

\* conversion of an int to uint8_t
UInt8(x) == x % 256

RECURSIVE BitAnd(_, _)
\* bitwise AND of two non-negative integers
BitAnd(a, b) ==
  IF a = 0 \/ b = 0 THEN 0
  ELSE (IF a % 2 = 1 /\ b % 2 = 1 THEN 1 ELSE 0) + 2 * BitAnd(a \div 2, b \div 2)

RECURSIVE BitOr(_, _)
\* bitwise OR of two non-negative integers
BitOr(a, b) ==
  IF a = 0 THEN b
  ELSE IF b = 0 THEN a
  ELSE (IF a % 2 = 1 \/ b % 2 = 1 THEN 1 ELSE 0) + 2 * BitOr(a \div 2, b \div 2)

\* bit n of a byte
Bit(v, n) == (v \div (2 ^ n)) % 2

\* variant: the low byte is taken first
Combine_LowFirst(hi, lo) == Int16(BitOr(lo * 256, hi))

\* (int16_t)((hi << 8) | lo) of two buffer bytes
Combine(hi, lo) == Int16(BitOr(hi * 256, lo))

\* the two bytes, high first, of the device's signed 16-bit output register v
OutBytes(v) == << (v % 65536) \div 256, v % 256 >>

\* the 6-byte block the device returns for an X, Y, Z output triple
Block6(t) == OutBytes(t[1]) \o OutBytes(t[2]) \o OutBytes(t[3])

(***************************************************************************)
(* The device behind the transport: the registers the driver writes.       *)
(***************************************************************************)
Tracked == {PWR_MGMT_1, INT_ENABLE, ACCEL_CONFIG, ACCEL_CONFIG_2,
            GYRO_CONFIG, CONFIG, INT_PIN_CFG}

\* register file after a device reset: every register 0x00 except
\* PWR_MGMT_1, which selects the PLL clock (0x01)
ResetRegs == [r \in Tracked |-> IF r = PWR_MGMT_1 THEN 1 ELSE 0]

\* effect of a successful single-byte write; DEVICE_RESET[7] of PWR_MGMT_1
\* resets the device and clears itself
DevWrite(rg, reg, data) ==
  IF reg = PWR_MGMT_1 /\ Bit(data, 7) = 1 THEN ResetRegs
  ELSE IF reg \in Tracked THEN [rg EXCEPT ![reg] = data]
  ELSE rg

(***************************************************************************)
(* Transport adapter.  A bus value b carries the device registers, the     *)
(* call log, the number of accesses issued, the failure plan and the feed  *)
(* of volatile read data.                                                  *)
(***************************************************************************)
NewBus(rg, plan, feed) ==
  [regs |-> rg, log |-> <<>>, n |-> 0, failAt |-> plan.failAt, err |-> plan.err,
   feed |-> feed]

\* status of the next bus access
NextStatus(b) == IF b.n + 1 = b.failAt THEN b.err ELSE HAL_OK

Entry(k, reg, len, data, st) ==
  [k |-> k, reg |-> reg, len |-> len, data |-> data, st |-> st]

\* HAL_I2C_Mem_Write of one byte
MPU6500_WriteRegister(b, reg, data) ==
  LET st == NextStatus(b) IN
  [bus |-> [b EXCEPT !.n = @ + 1,
                     !.log = Append(@, Entry("W", reg, 1, <<data>>, st)),
                     !.regs = IF st = HAL_OK THEN DevWrite(@, reg, data) ELSE @],
   status |-> st]

\* HAL_I2C_Mem_Read of len bytes starting at reg: tracked registers come
\* from the register file, volatile ones from the feed
MemRead(b, reg, len) ==
  LET st == NextStatus(b)
      fromFeed == reg \notin Tracked
      bytes == IF st # HAL_OK THEN <<>>
               ELSE IF fromFeed THEN Head(b.feed)
               ELSE <<b.regs[reg]>>
  IN
  [bus |-> [b EXCEPT !.n = @ + 1,
                     !.log = Append(@, Entry("R", reg, len, bytes, st)),
                     !.feed = IF st = HAL_OK /\ fromFeed THEN Tail(@) ELSE @],
   status |-> st,
   data |-> bytes]

\* HAL_I2C_Mem_Read of one byte
MPU6500_ReadRegister(b, reg) == MemRead(b, reg, 1)

\* HAL_Delay(ms)
HAL_Delay(b, ms) == [b EXCEPT !.log = Append(@, Entry("D", 0, ms, <<>>, HAL_OK))]

Ret(b, st) == [bus |-> b, status |-> st]

(***************************************************************************)
(* Configuration sequencer.                                                *)
(***************************************************************************)
MPU6500_Reset(b) == MPU6500_WriteRegister(b, PWR_MGMT_1, 128)

MPU6500_ConfigureClock(b) == MPU6500_WriteRegister(b, PWR_MGMT_1, 1)

\* variant: the second write is issued whatever the first returned
MPU6500_ConfigureAccel_NoAbort(b) ==
  LET r1 == MPU6500_WriteRegister(b, ACCEL_CONFIG, MPU6500_DEFAULT_ACCEL_CONFIG)
      r2 == MPU6500_WriteRegister(r1.bus, ACCEL_CONFIG_2, 4)
  IN Ret(r2.bus, IF r1.status # HAL_OK THEN r1.status ELSE r2.status)

MPU6500_ConfigureAccel(b) ==
  LET r1 == MPU6500_WriteRegister(b, ACCEL_CONFIG, MPU6500_DEFAULT_ACCEL_CONFIG) IN
  IF r1.status # HAL_OK THEN Ret(r1.bus, r1.status)
  ELSE LET r2 == MPU6500_WriteRegister(r1.bus, ACCEL_CONFIG_2, 4) IN
       IF r2.status # HAL_OK THEN Ret(r2.bus, r2.status)
       ELSE Ret(r2.bus, HAL_OK)

\* variant: the filter is written before the range
MPU6500_ConfigureGyro_Swapped(b) ==
  LET r1 == MPU6500_WriteRegister(b, CONFIG, 4) IN
  IF r1.status # HAL_OK THEN Ret(r1.bus, r1.status)
  ELSE LET r2 == MPU6500_WriteRegister(r1.bus, GYRO_CONFIG, MPU6500_DEFAULT_GYRO_CONFIG) IN
       IF r2.status # HAL_OK THEN Ret(r2.bus, r2.status)
       ELSE Ret(r2.bus, HAL_OK)

MPU6500_ConfigureGyro(b) ==
  LET r1 == MPU6500_WriteRegister(b, GYRO_CONFIG, MPU6500_DEFAULT_GYRO_CONFIG) IN
  IF r1.status # HAL_OK THEN Ret(r1.bus, r1.status)
  ELSE LET r2 == MPU6500_WriteRegister(r1.bus, CONFIG, 4) IN
       IF r2.status # HAL_OK THEN Ret(r2.bus, r2.status)
       ELSE Ret(r2.bus, HAL_OK)

\* regData &= ~(1 << 4)
ClearTempDis(v) == BitAnd(v, UInt8(255 - 16))

MPU6500_EnableTemperatureSensor(b) ==
  LET r1 == MPU6500_ReadRegister(b, PWR_MGMT_1) IN
  IF r1.status # HAL_OK THEN Ret(r1.bus, r1.status)
  ELSE LET r2 == MPU6500_WriteRegister(r1.bus, PWR_MGMT_1, ClearTempDis(r1.data[1])) IN
       Ret(r2.bus, r2.status)

\* variant: the interrupt set-up also turns the data-ready interrupt on
MPU6500_ConfigureInterrupts_Enabling(b) ==
  LET r1 == MPU6500_WriteRegister(b, INT_PIN_CFG, 176) IN
  IF r1.status # HAL_OK THEN Ret(r1.bus, r1.status)
  ELSE LET r2 == MPU6500_WriteRegister(r1.bus, INT_ENABLE, 1) IN
       Ret(r2.bus, r2.status)

MPU6500_ConfigureInterrupts(b) ==
  LET r1 == MPU6500_WriteRegister(b, INT_PIN_CFG, 176) IN
  IF r1.status # HAL_OK THEN Ret(r1.bus, r1.status)
  ELSE Ret(r1.bus, HAL_OK)

\* variant: the settling delay comes after the clock write
MPU6500_Init_LateDelay(b) ==
  LET s1 == MPU6500_Reset(b) IN
  IF s1.status # HAL_OK THEN Ret(s1.bus, s1.status) ELSE
  LET s2 == MPU6500_ConfigureClock(s1.bus) IN
  IF s2.status # HAL_OK THEN Ret(s2.bus, s2.status) ELSE
  LET s3 == MPU6500_ConfigureAccel(HAL_Delay(s2.bus, 100)) IN
  IF s3.status # HAL_OK THEN Ret(s3.bus, s3.status) ELSE
  LET s4 == MPU6500_ConfigureGyro(s3.bus) IN
  IF s4.status # HAL_OK THEN Ret(s4.bus, s4.status) ELSE
  LET s5 == MPU6500_EnableTemperatureSensor(s4.bus) IN
  IF s5.status # HAL_OK THEN Ret(s5.bus, s5.status) ELSE
  LET s6 == MPU6500_ConfigureInterrupts(s5.bus) IN
  IF s6.status # HAL_OK THEN Ret(s6.bus, s6.status) ELSE
  Ret(s6.bus, HAL_OK)

MPU6500_Init(b) ==
  LET s1 == MPU6500_Reset(b) IN
  IF s1.status # HAL_OK THEN Ret(s1.bus, s1.status) ELSE
  LET s2 == MPU6500_ConfigureClock(HAL_Delay(s1.bus, 100)) IN
  IF s2.status # HAL_OK THEN Ret(s2.bus, s2.status) ELSE
  LET s3 == MPU6500_ConfigureAccel(s2.bus) IN
  IF s3.status # HAL_OK THEN Ret(s3.bus, s3.status) ELSE
  LET s4 == MPU6500_ConfigureGyro(s3.bus) IN
  IF s4.status # HAL_OK THEN Ret(s4.bus, s4.status) ELSE
  LET s5 == MPU6500_EnableTemperatureSensor(s4.bus) IN
  IF s5.status # HAL_OK THEN Ret(s5.bus, s5.status) ELSE
  LET s6 == MPU6500_ConfigureInterrupts(s5.bus) IN
  IF s6.status # HAL_OK THEN Ret(s6.bus, s6.status) ELSE
  Ret(s6.bus, HAL_OK)

(***************************************************************************)
(* Power / interrupt controller.                                           *)
(***************************************************************************)
\* variant: bit 0 is set by a read-modify-write of the register
MPU6500_EnableDataReadyInterrupts_ReadModifyWrite(b) ==
  LET r1 == MPU6500_ReadRegister(b, INT_ENABLE) IN
  IF r1.status # HAL_OK THEN Ret(r1.bus, r1.status)
  ELSE LET r2 == MPU6500_WriteRegister(r1.bus, INT_ENABLE, BitOr(r1.data[1], 1)) IN
       Ret(r2.bus, r2.status)

MPU6500_EnableDataReadyInterrupts(b) ==
  LET r == MPU6500_WriteRegister(b, INT_ENABLE, 1) IN Ret(r.bus, r.status)

MPU6500_DisableDataReadyInterrupts(b) ==
  LET r == MPU6500_WriteRegister(b, INT_ENABLE, 0) IN Ret(r.bus, r.status)

\* regData |= (1 << 6)
SetSleepBit(v) == BitOr(v, 64)

\* variant: the mask also clears bit 2 of the clock-source field
ClearSleepBit_WrongMask(v) == BitAnd(v, UInt8(255 - 64 - 4))

\* regData &= ~(1 << 6)
ClearSleepBit(v) == BitAnd(v, UInt8(255 - 64))

\* variant: the write is issued whatever the read returned
MPU6500_Sleep_IgnoringRead(b) ==
  LET r1 == MPU6500_ReadRegister(b, PWR_MGMT_1)
      v == IF r1.status = HAL_OK THEN r1.data[1] ELSE 0
      r2 == MPU6500_WriteRegister(r1.bus, PWR_MGMT_1, SetSleepBit(v))
  IN Ret(r2.bus, r2.status)

MPU6500_Sleep(b) ==
  LET r1 == MPU6500_ReadRegister(b, PWR_MGMT_1) IN
  IF r1.status # HAL_OK THEN Ret(r1.bus, r1.status)
  ELSE LET r2 == MPU6500_WriteRegister(r1.bus, PWR_MGMT_1, SetSleepBit(r1.data[1])) IN
       Ret(r2.bus, r2.status)

\* variant: a failed read is reported as HAL_ERROR, whatever the transport
\* returned
MPU6500_WakeUp_GenericError(b) ==
  LET r1 == MPU6500_ReadRegister(b, PWR_MGMT_1) IN
  IF r1.status # HAL_OK THEN Ret(r1.bus, HAL_ERROR)
  ELSE LET r2 == MPU6500_WriteRegister(r1.bus, PWR_MGMT_1, ClearSleepBit(r1.data[1])) IN
       Ret(r2.bus, r2.status)

MPU6500_WakeUp(b) ==
  LET r1 == MPU6500_ReadRegister(b, PWR_MGMT_1) IN
  IF r1.status # HAL_OK THEN Ret(r1.bus, r1.status)
  ELSE LET r2 == MPU6500_WriteRegister(r1.bus, PWR_MGMT_1, ClearSleepBit(r1.data[1])) IN
       Ret(r2.bus, r2.status)

(***************************************************************************)
(* Unit converter.                                                         *)
(***************************************************************************)
RetOut(b, st, out) == [bus |-> b, status |-> st, out |-> out]

\* the three big-endian byte pairs of a 6-byte buffer as int16_t values
Combine3(buf) ==
  << Combine(buf[1], buf[2]), Combine(buf[3], buf[4]), Combine(buf[5], buf[6]) >>

\* variant: the identity the driver expects (0x70) is delivered instead of
\* the byte read
MPU6500_ReadWhoAmI_Expected(b) ==
  LET r == MPU6500_ReadRegister(b, WHO_AM_I) IN
  RetOut(r.bus, r.status, IF r.status = HAL_OK THEN <<112>> ELSE <<>>)

MPU6500_ReadWhoAmI(b) ==
  LET r == MPU6500_ReadRegister(b, WHO_AM_I) IN
  RetOut(r.bus, r.status, IF r.status = HAL_OK THEN <<r.data[1]>> ELSE <<>>)

MPU6500_ReadRawAccel(b) ==
  LET r == MemRead(b, ACCEL_XOUT_H, 6) IN
  IF r.status # HAL_OK THEN RetOut(r.bus, r.status, <<>>)
  ELSE RetOut(r.bus, HAL_OK, Combine3(r.data))

\* variant: the gyroscope block is read from the accelerometer's address
MPU6500_ReadRawGyro_AccelBase(b) ==
  LET r == MemRead(b, ACCEL_XOUT_H, 6) IN
  IF r.status # HAL_OK THEN RetOut(r.bus, r.status, <<>>)
  ELSE RetOut(r.bus, HAL_OK, Combine3(r.data))

MPU6500_ReadRawGyro(b) ==
  LET r == MemRead(b, GYRO_XOUT_H, 6) IN
  IF r.status # HAL_OK THEN RetOut(r.bus, r.status, <<>>)
  ELSE RetOut(r.bus, HAL_OK, Combine3(r.data))

\* int16_t raw = (int16_t)((hi << 8) | lo) - offset: the difference is an
\* int, the assignment converts it to int16_t
RawMinusOffset(hi, lo, off) == Int16(Combine(hi, lo) - off)

\* (float)raw / sensitivity, as the fraction <<numerator, denominator>> with
\* both scaled by ten (65.5f is 655 / 10)
ToPhysical(raw, sens_x10) == << raw * 10, sens_x10 >>

MPU6500_ReadAccel(b, off) ==
  LET r == MemRead(b, ACCEL_XOUT_H, 6) IN
  IF r.status # HAL_OK THEN RetOut(r.bus, r.status, <<>>)
  ELSE LET raw_x == RawMinusOffset(r.data[1], r.data[2], off[1])
           raw_y == RawMinusOffset(r.data[3], r.data[4], off[2])
           raw_z == RawMinusOffset(r.data[5], r.data[6], off[3])
       IN RetOut(r.bus, HAL_OK,
                 << ToPhysical(raw_x, MPU6500_ACCEL_SENS * 10),
                    ToPhysical(raw_y, MPU6500_ACCEL_SENS * 10),
                    ToPhysical(raw_z, MPU6500_ACCEL_SENS * 10) >>)

MPU6500_ReadGyro(b, off) ==
  LET r == MemRead(b, GYRO_XOUT_H, 6) IN
  IF r.status # HAL_OK THEN RetOut(r.bus, r.status, <<>>)
  ELSE LET raw_x == RawMinusOffset(r.data[1], r.data[2], off[1])
           raw_y == RawMinusOffset(r.data[3], r.data[4], off[2])
           raw_z == RawMinusOffset(r.data[5], r.data[6], off[3])
       IN RetOut(r.bus, HAL_OK,
                 << ToPhysical(raw_x, MPU6500_GYRO_SENS_x10),
                    ToPhysical(raw_y, MPU6500_GYRO_SENS_x10),
                    ToPhysical(raw_z, MPU6500_GYRO_SENS_x10) >>)

MPU6500_ReadTemp(b) ==
  LET r == MemRead(b, TEMP_OUT_H, 2) IN
  IF r.status # HAL_OK THEN RetOut(r.bus, r.status, <<>>)
  ELSE RetOut(r.bus, HAL_OK, <<Combine(r.data[1], r.data[2])>>)

(***************************************************************************)
(* Offset calibrator.                                                      *)
(***************************************************************************)
\* int32_t sum / uint32_t samples: the sum is converted to uint32_t and the
\* division is unsigned.  The quotient is returned as two base-65536 digits
\* <<high, low>>.
U32Div(sum, samples) ==
  LET hi == (sum \div 65536) % 65536
      lo == sum % 65536
      q_hi == hi \div samples
      r == hi % samples
      q_lo == (r * 65536 + lo) \div samples
  IN << q_hi, q_lo >>

\* (int16_t)(sum / samples)
MeanOffset(sum, samples) == Int16(U32Div(sum, samples)[2])

\* (int16_t)(1.0f * MPU6500_ACCEL_SENS)
OneG == Int16(MPU6500_ACCEL_SENS)

\* one pass of the loop body's accumulation
Accumulate(accel_sum, gyro_sum, raw_accel, raw_gyro) ==
  [accel_sum |-> << accel_sum[1] + raw_accel[1],
                    accel_sum[2] + raw_accel[2],
                    accel_sum[3] + (raw_accel[3] - OneG) >>,
   gyro_sum |-> << gyro_sum[1] + raw_gyro[1],
                   gyro_sum[2] + raw_gyro[2],
                   gyro_sum[3] + raw_gyro[3] >>]

RECURSIVE SampleLoop(_, _, _, _, _)
\* for (i = 0; i < samples; i++) { ... }
SampleLoop(b, i, samples, accel_sum, gyro_sum) ==
  IF ~(i < samples)
  THEN [bus |-> b, status |-> HAL_OK, accel_sum |-> accel_sum, gyro_sum |-> gyro_sum]
  ELSE LET ra == MPU6500_ReadRawAccel(b) IN
       IF ra.status # HAL_OK
       THEN [bus |-> ra.bus, status |-> ra.status,
             accel_sum |-> accel_sum, gyro_sum |-> gyro_sum]
       ELSE LET rg == MPU6500_ReadRawGyro(ra.bus) IN
            IF rg.status # HAL_OK
            THEN [bus |-> rg.bus, status |-> rg.status,
                  accel_sum |-> accel_sum, gyro_sum |-> gyro_sum]
            ELSE LET acc == Accumulate(accel_sum, gyro_sum, ra.out, rg.out) IN
                 SampleLoop(HAL_Delay(rg.bus, 5), i + 1, samples,
                            acc.accel_sum, acc.gyro_sum)

\* the six assignments after the loop
StoreOffsets(accel_sum, gyro_sum, samples) ==
  [accel_offset |-> << MeanOffset(accel_sum[1], samples),
                       MeanOffset(accel_sum[2], samples),
                       MeanOffset(accel_sum[3], samples) >>,
   gyro_offset |-> << MeanOffset(gyro_sum[1], samples),
                      MeanOffset(gyro_sum[2], samples),
                      MeanOffset(gyro_sum[3], samples) >>]

\* variant: another status for samples == 0
InvalidSamplesStatus_Busy == HAL_BUSY

\* status returned for samples == 0
InvalidSamplesStatus == HAL_ERROR

\* variant: the means of the sums so far are stored when the loop fails
MPU6500_InitOffsetCalibration_PartialStore(b, samples, aoff, goff) ==
  LET keep(bb, st) == [bus |-> bb, status |-> st,
                       accel_offset |-> aoff, gyro_offset |-> goff]
  IN
  IF samples = 0 THEN keep(b, HAL_ERROR) ELSE
  LET w == MPU6500_WakeUp(b) IN
  IF w.status # HAL_OK THEN keep(w.bus, w.status) ELSE
  LET l == SampleLoop(w.bus, 0, samples, <<0, 0, 0>>, <<0, 0, 0>>)
      o == StoreOffsets(l.accel_sum, l.gyro_sum, samples)
  IN [bus |-> l.bus, status |-> l.status,
      accel_offset |-> o.accel_offset, gyro_offset |-> o.gyro_offset]

\* variant: the device is woken before the sample count is validated
MPU6500_InitOffsetCalibration_WakeFirst(b, samples, aoff, goff) ==
  LET keep(bb, st) == [bus |-> bb, status |-> st,
                       accel_offset |-> aoff, gyro_offset |-> goff]
  IN
  LET w == MPU6500_WakeUp(b) IN
  IF w.status # HAL_OK THEN keep(w.bus, w.status) ELSE
  IF samples = 0 THEN keep(w.bus, HAL_ERROR) ELSE
  LET l == SampleLoop(w.bus, 0, samples, <<0, 0, 0>>, <<0, 0, 0>>) IN
  IF l.status # HAL_OK THEN keep(l.bus, l.status) ELSE
  LET o == StoreOffsets(l.accel_sum, l.gyro_sum, samples) IN
  [bus |-> l.bus, status |-> HAL_OK,
   accel_offset |-> o.accel_offset, gyro_offset |-> o.gyro_offset]

\* variant: the samples are read without waking the device first
MPU6500_InitOffsetCalibration_NoWake(b, samples, aoff, goff) ==
  LET keep(bb, st) == [bus |-> bb, status |-> st,
                       accel_offset |-> aoff, gyro_offset |-> goff]
  IN
  IF samples = 0 THEN keep(b, InvalidSamplesStatus) ELSE
  LET l == SampleLoop(b, 0, samples, <<0, 0, 0>>, <<0, 0, 0>>) IN
  IF l.status # HAL_OK THEN keep(l.bus, l.status) ELSE
  LET o == StoreOffsets(l.accel_sum, l.gyro_sum, samples) IN
  [bus |-> l.bus, status |-> HAL_OK,
   accel_offset |-> o.accel_offset, gyro_offset |-> o.gyro_offset]

\* variant: the means are taken of samples from which the current offsets
\* were subtracted, as when the loop samples through ReadAccel / ReadGyro
MPU6500_InitOffsetCalibration_Calibrated(b, samples, aoff, goff) ==
  LET keep(bb, st) == [bus |-> bb, status |-> st,
                       accel_offset |-> aoff, gyro_offset |-> goff]
  IN
  IF samples = 0 THEN keep(b, InvalidSamplesStatus) ELSE
  LET w == MPU6500_WakeUp(b) IN
  IF w.status # HAL_OK THEN keep(w.bus, w.status) ELSE
  LET l == SampleLoop(w.bus, 0, samples, <<0, 0, 0>>, <<0, 0, 0>>) IN
  IF l.status # HAL_OK THEN keep(l.bus, l.status) ELSE
  LET o == StoreOffsets(l.accel_sum, l.gyro_sum, samples) IN
  [bus |-> l.bus, status |-> HAL_OK,
   accel_offset |-> [k \in 1 .. 3 |-> Int16(o.accel_offset[k] - aoff[k])],
   gyro_offset |-> [k \in 1 .. 3 |-> Int16(o.gyro_offset[k] - goff[k])]]

\* aoff, goff: the calibration offsets at the call
MPU6500_InitOffsetCalibration(b, samples, aoff, goff) ==
  LET keep(bb, st) == [bus |-> bb, status |-> st,
                       accel_offset |-> aoff, gyro_offset |-> goff]
  IN
  IF samples = 0 THEN keep(b, InvalidSamplesStatus) ELSE
  LET w == MPU6500_WakeUp(b) IN
  IF w.status # HAL_OK THEN keep(w.bus, w.status) ELSE
  LET l == SampleLoop(w.bus, 0, samples, <<0, 0, 0>>, <<0, 0, 0>>) IN
  IF l.status # HAL_OK THEN keep(l.bus, l.status) ELSE
  LET o == StoreOffsets(l.accel_sum, l.gyro_sum, samples) IN
  [bus |-> l.bus, status |-> HAL_OK,
   accel_offset |-> o.accel_offset, gyro_offset |-> o.gyro_offset]

\* the eight printf calls, each as its format and its argument list
MPU6500_PrintOffsets(aoff, goff) ==
  [status |-> HAL_OK,
   out |-> << [fmt |-> "Accelerometer Offsets:\n", args |-> <<>>],
              [fmt |-> "X: %d\n", args |-> <<aoff[1]>>],
              [fmt |-> "Y: %d\n", args |-> <<aoff[2]>>],
              [fmt |-> "Z: %d\n", args |-> <<aoff[3]>>],
              [fmt |-> "Gyroscope Offsets:\n", args |-> <<>>],
              [fmt |-> "X: %d\n", args |-> <<goff[1]>>],
              [fmt |-> "Y: %d\n", args |-> <<goff[2]>>],
              [fmt |-> "Z: %d\n", args |-> <<goff[3]>>] >>]

(***************************************************************************)
(* Inputs of the model.                                                    *)
(***************************************************************************)
\* largest index of a failing bus access
MaxFailAt == 9

\* transport behaviours of a call issuing at most n accesses: no failure, or
\* the k-th access returns the non-OK status e
Plans(n) ==
  {[failAt |-> 0, err |-> HAL_OK]} \cup
  {[failAt |-> k, err |-> e] : k \in 1 .. n, e \in TransportErrors}

\* bytes the device may hold in WHO_AM_I
IdBytes == {0, 112, 255}

\* X, Y, Z output triples of the device for a single read
Triples == { <<0, 0, 0>>, <<-1, -1, -1>>, <<32767, -32768, 8192>>,
             <<16384, -16384, 300>> }

\* temperature outputs of the device
TempVals == {-32768, -1, 0, 7011, 32767}

\* accelerometer and gyroscope outputs of the device during one calibration
\* sample
CalSamples == { [a |-> <<0, 32767, 8192>>, g |-> <<0, 5, -32768>>],
                [a |-> <<-1, -32768, -1>>, g |-> <<-1, 7, 32767>>] }

\* number of samples the device is asked for, wholly or in part, in a
\* calibration of `samples` samples under a plan: all of them when no access
\* fails, those begun before the failing access otherwise (accesses 1 and 2
\* are the WakeUp, then two block reads per sample)
SamplesRead(plan, samples) ==
  IF plan.failAt = 0 THEN samples ELSE (plan.failAt - 2) \div 2

RECURSIVE CalFeed(_)
\* the blocks the device returns during a calibration whose samples are ss
CalFeed(ss) ==
  IF ss = <<>> THEN <<>>
  ELSE << Block6(Head(ss).a), Block6(Head(ss).g) >> \o CalFeed(Tail(ss))

(***************************************************************************)
(* State machine.  A call of a public operation runs to its return; `last` *)
(* then holds what the caller observes (status, outputs, the transport's   *)
(* call log) until the caller takes it (Return) and may call again.        *)
(***************************************************************************)
Zero3 == <<0, 0, 0>>

NoCall == [op |-> "none", arg |-> 0, log |-> <<>>, ret |-> HAL_OK, out |-> <<>>]

\* the locals of a calibration whose sampling loop is followed pass by pass:
\* the loop counter, the requested count, the six running sums, and whether
\* an addition has left the range of int32_t (undefined behaviour)
NoCal == [i |-> 0, samples |-> 0, accel_sum |-> Zero3, gyro_sum |-> Zero3,
          ub |-> FALSE]

\* the locals of a conversion followed statement by statement in a second
\* thread of control: its position (0: not in a call), the operation, the
\* buffer read, the call log, the raw values computed and the offsets read
NoConv == [pc |-> 0, op |-> "none", buffer |-> <<>>, log |-> <<>>,
           raw |-> <<>>, used |-> <<>>]

\* two threads of control: whether the callers use a lock, who holds it, how
\* many of the final store's six assignments are done, and the conversion
NoThreads == [locking |-> FALSE, lock |-> "free", stored |-> 0, conv |-> NoConv]

Done(op, arg, r, out) ==
  [op |-> op, arg |-> arg, log |-> r.bus.log, ret |-> r.status, out |-> out]

Init ==
  /\ regs = ResetRegs
  /\ accel_offset = Zero3
  /\ gyro_offset = Zero3
  /\ last = NoCall
  /\ cal = NoCal
  /\ thr = NoThreads

\* variant: Init also clears the stored calibration
DoInit_ClearingOffsets ==
  \E plan \in Plans(MaxFailAt) :
    LET r == MPU6500_Init(NewBus(regs, plan, <<>>)) IN
    /\ regs' = r.bus.regs
    /\ last' = Done("Init", 0, r, <<>>)
    /\ accel_offset' = Zero3
    /\ gyro_offset' = Zero3
    /\ UNCHANGED <<cal, thr>>

DoInit ==
  \E plan \in Plans(MaxFailAt) :
    LET r == MPU6500_Init(NewBus(regs, plan, <<>>)) IN
    /\ regs' = r.bus.regs
    /\ last' = Done("Init", 0, r, <<>>)
    /\ UNCHANGED <<accel_offset, gyro_offset, cal, thr>>

DoEnableDataReadyInterrupts ==
  \E plan \in Plans(1) :
    LET r == MPU6500_EnableDataReadyInterrupts(NewBus(regs, plan, <<>>)) IN
    /\ regs' = r.bus.regs
    /\ last' = Done("EnableDataReadyInterrupts", 0, r, <<>>)
    /\ UNCHANGED <<accel_offset, gyro_offset, cal, thr>>

DoDisableDataReadyInterrupts ==
  \E plan \in Plans(1) :
    LET r == MPU6500_DisableDataReadyInterrupts(NewBus(regs, plan, <<>>)) IN
    /\ regs' = r.bus.regs
    /\ last' = Done("DisableDataReadyInterrupts", 0, r, <<>>)
    /\ UNCHANGED <<accel_offset, gyro_offset, cal, thr>>

DoSleep ==
  \E plan \in Plans(2) :
    LET r == MPU6500_Sleep(NewBus(regs, plan, <<>>)) IN
    /\ regs' = r.bus.regs
    /\ last' = Done("Sleep", 0, r, <<>>)
    /\ UNCHANGED <<accel_offset, gyro_offset, cal, thr>>

DoWakeUp ==
  \E plan \in Plans(2) :
    LET r == MPU6500_WakeUp(NewBus(regs, plan, <<>>)) IN
    /\ regs' = r.bus.regs
    /\ last' = Done("WakeUp", 0, r, <<>>)
    /\ UNCHANGED <<accel_offset, gyro_offset, cal, thr>>

\* a call of ReadWhoAmI on a device whose WHO_AM_I holds one of ids
ReadWhoAmIFrom(ids) ==
  \E plan \in Plans(1), id \in ids :
    LET r == MPU6500_ReadWhoAmI(NewBus(regs, plan, << <<id>> >>)) IN
    /\ regs' = r.bus.regs
    /\ last' = Done("ReadWhoAmI", 0, r, r.out)
    /\ UNCHANGED <<accel_offset, gyro_offset, cal, thr>>

DoReadWhoAmI == ReadWhoAmIFrom(IdBytes)

\* a call of ReadRawAccel on a device that returns one of the 6-byte blocks
ReadRawAccelFrom(blocks) ==
  \E plan \in Plans(1), blk \in blocks :
    LET r == MPU6500_ReadRawAccel(NewBus(regs, plan, << blk >>)) IN
    /\ regs' = r.bus.regs
    /\ last' = Done("ReadRawAccel", 0, r, r.out)
    /\ UNCHANGED <<accel_offset, gyro_offset, cal, thr>>

DoReadRawAccel == ReadRawAccelFrom({Block6(t) : t \in Triples})

\* a call of ReadRawGyro on a device that returns one of the 6-byte blocks
ReadRawGyroFrom(blocks) ==
  \E plan \in Plans(1), blk \in blocks :
    LET r == MPU6500_ReadRawGyro(NewBus(regs, plan, << blk >>)) IN
    /\ regs' = r.bus.regs
    /\ last' = Done("ReadRawGyro", 0, r, r.out)
    /\ UNCHANGED <<accel_offset, gyro_offset, cal, thr>>

DoReadRawGyro == ReadRawGyroFrom({Block6(t) : t \in Triples})

DoReadAccel ==
  \E plan \in Plans(1), t \in Triples :
    LET r == MPU6500_ReadAccel(NewBus(regs, plan, << Block6(t) >>), accel_offset) IN
    /\ regs' = r.bus.regs
    /\ last' = Done("ReadAccel", 0, r, r.out)
    /\ UNCHANGED <<accel_offset, gyro_offset, cal, thr>>

DoReadGyro ==
  \E plan \in Plans(1), t \in Triples :
    LET r == MPU6500_ReadGyro(NewBus(regs, plan, << Block6(t) >>), gyro_offset) IN
    /\ regs' = r.bus.regs
    /\ last' = Done("ReadGyro", 0, r, r.out)
    /\ UNCHANGED <<accel_offset, gyro_offset, cal, thr>>

\* a call of ReadTemp on a device that returns one of the byte pairs
ReadTempFrom(pairs) ==
  \E plan \in Plans(1), p \in pairs :
    LET r == MPU6500_ReadTemp(NewBus(regs, plan, << p >>)) IN
    /\ regs' = r.bus.regs
    /\ last' = Done("ReadTemp", 0, r, r.out)
    /\ UNCHANGED <<accel_offset, gyro_offset, cal, thr>>

DoReadTemp == ReadTempFrom({OutBytes(v) : v \in TempVals})

DoInitOffsetCalibration ==
  \E samples \in 0 .. MaxSamples :
  \E plan \in Plans(2 + 2 * samples) :
  \E ss \in [1 .. SamplesRead(plan, samples) -> CalSamples] :
    LET r == MPU6500_InitOffsetCalibration(NewBus(regs, plan, CalFeed(ss)),
                                           samples, accel_offset, gyro_offset) IN
    /\ regs' = r.bus.regs
    /\ accel_offset' = r.accel_offset
    /\ gyro_offset' = r.gyro_offset
    /\ last' = Done("InitOffsetCalibration", samples, r, <<>>)
    /\ UNCHANGED <<cal, thr>>

\* no bus access: the log of the call is empty
DoPrintOffsets ==
  LET r == MPU6500_PrintOffsets(accel_offset, gyro_offset) IN
  /\ last' = [op |-> "PrintOffsets", arg |-> 0, log |-> <<>>,
              ret |-> r.status, out |-> r.out]
  /\ UNCHANGED <<regs, accel_offset, gyro_offset, cal, thr>>

\* the caller takes the result of the call
Return ==
  /\ last # NoCall
  /\ last' = NoCall
  /\ UNCHANGED <<regs, accel_offset, gyro_offset, cal, thr>>

\* no call is in progress or waiting to be taken
Idle == last = NoCall

Next ==
  \/ Idle /\ DoInit
  \/ Idle /\ DoEnableDataReadyInterrupts
  \/ Idle /\ DoDisableDataReadyInterrupts
  \/ Idle /\ DoSleep
  \/ Idle /\ DoWakeUp
  \/ Idle /\ DoReadWhoAmI
  \/ Idle /\ DoReadRawAccel
  \/ Idle /\ DoReadRawGyro
  \/ Idle /\ DoReadAccel
  \/ Idle /\ DoReadGyro
  \/ Idle /\ DoReadTemp
  \/ Idle /\ DoInitOffsetCalibration
  \/ Idle /\ DoPrintOffsets
  \/ Return

Spec == Init /\ [][Next]_vars

TypeOK ==
  /\ regs \in [Tracked -> 0 .. 255]
  /\ regs[PWR_MGMT_1] < 128
  /\ \A i \in 1 .. 3 : accel_offset[i] \in -32768 .. 32767
  /\ \A i \in 1 .. 3 : gyro_offset[i] \in -32768 .. 32767

(***************************************************************************)
(* Observations on the call log of the last operation.                     *)
(***************************************************************************)
\* the bus accesses of a log, in order, without the delays
Accesses(log) == SelectSeq(log, LAMBDA e : e.k # "D")

\* every access of the log returned HAL_OK
AllOK(log) == \A i \in 1 .. Len(log) : log[i].st = HAL_OK

\* byte w is byte v with bit n forced to x and the other seven bits kept
SameBut(w, v, n, x) ==
  \A i \in 0 .. 7 : Bit(w, i) = (IF i = n THEN x ELSE Bit(v, i))

\* the accesses MPU6500_Init issues on a transport that never fails, and the
\* step of the sequence each belongs to; access 8 writes back the byte read
\* by access 7
InitScript ==
  << [k |-> "W", reg |-> 107, data |-> 128, step |-> 1],
     [k |-> "W", reg |-> 107, data |-> 1, step |-> 2],
     [k |-> "W", reg |-> 28, data |-> 8, step |-> 3],
     [k |-> "W", reg |-> 29, data |-> 4, step |-> 3],
     [k |-> "W", reg |-> 27, data |-> 8, step |-> 4],
     [k |-> "W", reg |-> 26, data |-> 4, step |-> 4],
     [k |-> "R", reg |-> 107, data |-> -1, step |-> 5],
     [k |-> "W", reg |-> 107, data |-> -1, step |-> 5],
     [k |-> "W", reg |-> 55, data |-> 176, step |-> 6] >>

\* access i of acc is access i of the Init sequence
MatchesScript(acc, i) ==
  /\ acc[i].k = InitScript[i].k
  /\ acc[i].reg = InitScript[i].reg
  /\ acc[i].len = 1
  /\ (InitScript[i].data >= 0 /\ acc[i].k = "W") => acc[i].data = <<InitScript[i].data>>
  /\ (i = 8) => SameBut(acc[8].data[1], acc[7].data[1], 4, 0)

\* C1: when the first transport failure of MPU6500_Init falls in step k
\* (1..6), Init returns failure and the call log is exactly the accesses of
\* the Init sequence up to and including the failing one: all of steps
\* 1..k-1, the accesses of step k up to the failure, and nothing of any later
\* step.
C1_InitFailFast ==
  (last.op = "Init" /\ ~AllOK(last.log)) =>
    LET acc == Accesses(last.log)
        n == Len(acc)
    IN /\ last.ret # HAL_OK
       /\ n \in 1 .. Len(InitScript)
       /\ InitScript[n].step \in 1 .. 6
       /\ acc[n].st # HAL_OK
       /\ \A i \in 1 .. n - 1 : acc[i].st = HAL_OK
       /\ \A i \in 1 .. n : MatchesScript(acc, i)
       /\ \A i \in 1 .. n : InitScript[i].step <= InitScript[n].step

\* Init failed in step 5, at the write-back of the temperature enable
C1_Witness ==
  /\ last.op = "Init"
  /\ last.ret # HAL_OK
  /\ Len(Accesses(last.log)) = 8

\* C2: on a transport that never fails, MPU6500_Init returns HAL_OK and its
\* bus accesses are exactly the nine of the Init sequence, in order: reset
\* 0x80, clock 0x01, ACCEL_CONFIG range code, ACCEL_CONFIG_2 0x04, GYRO_CONFIG
\* range code, CONFIG 0x04, read PWR_MGMT_1, write PWR_MGMT_1, INT_PIN_CFG 0xB0.
C2_InitSequence ==
  (last.op = "Init" /\ AllOK(last.log)) =>
    LET acc == Accesses(last.log) IN
    /\ last.ret = HAL_OK
    /\ Len(acc) = Len(InitScript)
    /\ \A i \in 1 .. Len(acc) : MatchesScript(acc, i)
    /\ acc[3].data = <<MPU6500_DEFAULT_ACCEL_CONFIG>>
    /\ acc[5].data = <<MPU6500_DEFAULT_GYRO_CONFIG>>

\* Init ran to its end and the interrupt pin is configured
C2_Witness ==
  /\ last.op = "Init"
  /\ last.ret = HAL_OK
  /\ Len(Accesses(last.log)) = 9
  /\ regs[INT_PIN_CFG] = 176

\* C3: in every execution of MPU6500_Init the 100-unit delay directly
\* follows the successful reset write and precedes every other bus access;
\* when the reset write fails the log ends there: no delay, no further
\* access.
C3_ResetSettles ==
  (last.op = "Init") =>
    LET log == last.log IN
    /\ Len(log) >= 1
    /\ log[1].k = "W" /\ log[1].reg = PWR_MGMT_1 /\ log[1].data = <<128>>
    /\ (log[1].st # HAL_OK) => Len(log) = 1
    /\ (log[1].st = HAL_OK) =>
         /\ Len(log) >= 3
         /\ log[2].k = "D" /\ log[2].len = 100
         /\ \A i \in 3 .. Len(log) : log[i].k # "D"

\* the reset write succeeded and accesses followed the delay
C3_Witness ==
  /\ last.op = "Init"
  /\ Len(last.log) > 3
  /\ last.log[1].st = HAL_OK
  /\ last.log[2].k = "D"

\* the public operations that use the bus
BusOps == {"Init", "EnableDataReadyInterrupts", "DisableDataReadyInterrupts",
           "Sleep", "WakeUp", "ReadWhoAmI", "ReadRawAccel", "ReadRawGyro",
           "ReadAccel", "ReadGyro", "ReadTemp", "InitOffsetCalibration"}

\* C4: for every public operation (InitOffsetCalibration with samples > 0),
\* the first bus access that returns a non-OK status e is the last access of
\* the call and the call returns exactly e; the call returns HAL_OK exactly
\* when every access it issued returned HAL_OK.
C4_ErrorVerbatim ==
  (last.op \in BusOps /\ ~(last.op = "InitOffsetCalibration" /\ last.arg = 0)) =>
    LET acc == Accesses(last.log) IN
    /\ Len(acc) >= 1
    /\ (last.ret = HAL_OK) <=> AllOK(acc)
    /\ \A i \in 1 .. Len(acc) :
         acc[i].st # HAL_OK => (i = Len(acc) /\ last.ret = acc[i].st)

\* a calibration whose gyroscope read of the first sample timed out
C4_Witness ==
  /\ last.op = "InitOffsetCalibration"
  /\ last.ret = HAL_TIMEOUT
  /\ Len(Accesses(last.log)) = 4

\* the signed 16-bit value whose big-endian two's-complement bytes are hi, lo
SignedOf(hi, lo) == IF hi >= 128 THEN hi * 256 + lo - 65536 ELSE hi * 256 + lo

\* the X, Y, Z values held in a 6-byte block
Signed3(d) == << SignedOf(d[1], d[2]), SignedOf(d[3], d[4]), SignedOf(d[5], d[6]) >>

\* C5: for every raw value and every stored offset in the signed 16-bit
\* range, the value ReadAccel / ReadGyro divides by the sensitivity constant
\* is the mathematical difference raw - offset on each axis, so the result
\* is (raw - offset) / sensitivity.
C5_ExactDifference ==
  (last.op \in {"ReadAccel", "ReadGyro"} /\ last.ret = HAL_OK) =>
    LET raw == Signed3(last.log[1].data)
        off == IF last.op = "ReadAccel" THEN accel_offset ELSE gyro_offset
        sens_x10 == IF last.op = "ReadAccel" THEN MPU6500_ACCEL_SENS * 10
                    ELSE MPU6500_GYRO_SENS_x10
    IN \A i \in 1 .. 3 : last.out[i] = << (raw[i] - off[i]) * 10, sens_x10 >>

\* the accelerometer block read of sample i of a calibration log
AccelRead(acc, i) == acc[2 * i + 1]

\* the gyroscope block read of sample i of a calibration log
GyroRead(acc, i) == acc[2 * i + 2]

\* C6: a successful InitOffsetCalibration(N), N > 0, whose N samples are
\* identical stores, per axis, exactly the sample value s for accelerometer
\* X, Y and gyroscope X, Y, Z, and s minus the raw count of 1 g for
\* accelerometer Z.
C6_IdenticalSamples ==
  (last.op = "InitOffsetCalibration" /\ last.ret = HAL_OK) =>
    LET acc == Accesses(last.log)
        N == last.arg
        a == Signed3(AccelRead(acc, 1).data)
        g == Signed3(GyroRead(acc, 1).data)
    IN (\A i \in 1 .. N : /\ AccelRead(acc, i).data = AccelRead(acc, 1).data
                          /\ GyroRead(acc, i).data = GyroRead(acc, 1).data)
       => /\ accel_offset = << a[1], a[2], a[3] - 8192 >>
          /\ gyro_offset = g

\* the log of a calibration of N samples that ran to its end: the WakeUp, then
\* N times accelerometer read, gyroscope read, 5-unit delay
CompleteSampling(log, N) ==
  /\ Len(log) = 2 + 3 * N
  /\ AllOK(log)
  /\ \A i \in 1 .. N :
       /\ log[3 * i].k = "R" /\ log[3 * i].reg = ACCEL_XOUT_H
       /\ log[3 * i + 1].k = "R" /\ log[3 * i + 1].reg = GYRO_XOUT_H
       /\ log[3 * i + 2].k = "D" /\ log[3 * i + 2].len = 5

\* C7: when a bus access fails during InitOffsetCalibration (in the WakeUp or
\* in a block read of any sample), the call returns that failure and the six
\* offsets keep the values they had before the call; the offsets change only
\* in a call that returned HAL_OK after reading all its samples.
C7_AllOrNothing ==
  [][ /\ (last'.op = "InitOffsetCalibration" /\ ~AllOK(last'.log)) =>
           /\ last'.ret = last'.log[Len(last'.log)].st
           /\ last'.ret # HAL_OK
           /\ accel_offset' = accel_offset
           /\ gyro_offset' = gyro_offset
      /\ (accel_offset' # accel_offset \/ gyro_offset' # gyro_offset) =>
           /\ last'.op = "InitOffsetCalibration"
           /\ last'.ret = HAL_OK
           /\ last'.arg > 0
           /\ CompleteSampling(last'.log, last'.arg)
    ]_vars

\* a calibration failed in its second sample while earlier offsets were stored
C7_Witness ==
  /\ last.op = "InitOffsetCalibration"
  /\ last.ret # HAL_OK
  /\ Len(Accesses(last.log)) >= 5
  /\ accel_offset # Zero3
  /\ gyro_offset # Zero3

\* C8: InitOffsetCalibration(0) returns failure with an empty call log (no
\* read, no write, no block read, no delay) and changes neither a calibration
\* offset nor a device register.
C8_ZeroSamples ==
  [][ (last'.op = "InitOffsetCalibration" /\ last'.arg = 0) =>
        /\ last'.ret # HAL_OK
        /\ last'.log = <<>>
        /\ regs' = regs
        /\ accel_offset' = accel_offset
        /\ gyro_offset' = gyro_offset
    ]_vars

\* InitOffsetCalibration(0) was called on a calibrated driver
C8_Witness ==
  /\ last.op = "InitOffsetCalibration"
  /\ last.arg = 0
  /\ accel_offset # Zero3

\* C9 as stated: the status returned for samples = 0 differs from every
\* status the operation can return because of a transport failure.
C9_DistinctStatus ==
  (last.op = "InitOffsetCalibration" /\ last.arg = 0) =>
    last.ret \notin TransportErrors

\* C9 amended: the status returned for samples = 0 is HAL_ERROR, the value a
\* failed bus access can return too; the two causes differ in the call log,
\* which is empty for samples = 0 and ends with the failing access
\* otherwise.
C9_SameStatusEmptyLog ==
  (last.op = "InitOffsetCalibration" /\ last.ret # HAL_OK) =>
    /\ (last.arg = 0) => (last.ret = HAL_ERROR /\ last.ret \in TransportErrors)
    /\ (last.arg = 0) <=> (last.log = <<>>)
    /\ (last.arg # 0) => last.log[Len(last.log)].st = last.ret

\* InitOffsetCalibration(0) returned HAL_ERROR
C9_Witness ==
  /\ last.op = "InitOffsetCalibration"
  /\ last.arg = 0
  /\ last.ret = HAL_ERROR
  /\ last.log = <<>>

(***************************************************************************)
(* Sleep and WakeUp on every value PWR_MGMT_1 can hold, called back to     *)
(* back.                                                                   *)
(***************************************************************************)
\* the bytes PWR_MGMT_1 can hold: DEVICE_RESET[7] clears itself
PwrBytes == 0 .. 127

InitPwr ==
  /\ regs \in {[ResetRegs EXCEPT ![PWR_MGMT_1] = v] : v \in PwrBytes}
  /\ accel_offset = Zero3
  /\ gyro_offset = Zero3
  /\ last = NoCall
  /\ cal = NoCal
  /\ thr = NoThreads

NextPwr ==
  \/ DoSleep
  \/ DoWakeUp

SpecPwr == InitPwr /\ [][NextPwr]_vars

\* the registers other than PWR_MGMT_1 are the same in rg1 and rg2
OthersSame(rg1, rg2) == \A r \in Tracked \ {PWR_MGMT_1} : rg1[r] = rg2[r]

\* C10: for every byte v held in PWR_MGMT_1, a successful Sleep leaves v with
\* bit 6 set and a successful WakeUp leaves v with bit 6 cleared, the other
\* seven bits unchanged; a Sleep after a Sleep changes nothing, and a WakeUp
\* after a Sleep leaves the byte held before the Sleep with only bit 6
\* cleared.
C10_SleepBitOnly ==
  [][ /\ (last'.op = "Sleep" /\ last'.ret = HAL_OK) =>
           /\ SameBut(regs'[PWR_MGMT_1], regs[PWR_MGMT_1], 6, 1)
           /\ last'.log[2].data = <<regs'[PWR_MGMT_1]>>
           /\ OthersSame(regs', regs)
      /\ (last'.op = "WakeUp" /\ last'.ret = HAL_OK) =>
           /\ SameBut(regs'[PWR_MGMT_1], regs[PWR_MGMT_1], 6, 0)
           /\ last'.log[2].data = <<regs'[PWR_MGMT_1]>>
           /\ OthersSame(regs', regs)
      /\ (last.op = "Sleep" /\ last.ret = HAL_OK /\
          last'.op = "Sleep" /\ last'.ret = HAL_OK) => regs' = regs
      /\ (last.op = "Sleep" /\ last.ret = HAL_OK /\
          last'.op = "WakeUp" /\ last'.ret = HAL_OK) =>
           SameBut(regs'[PWR_MGMT_1], last.log[1].data[1], 6, 0)
    ]_vars

\* WakeUp succeeded on a sleeping device with clock-source field 5: the
\* register went from 0x45 to 0x05
C10_Witness ==
  /\ last.op = "WakeUp"
  /\ last.ret = HAL_OK
  /\ last.log[1].data = <<69>>
  /\ regs[PWR_MGMT_1] = 5

(***************************************************************************)
(* Data-ready interrupt generation.                                        *)
(***************************************************************************)
\* the device generates data-ready interrupts: bit 0 of INT_ENABLE
DataReady(rg) == Bit(rg[INT_ENABLE], 0) = 1

\* a write of PWR_MGMT_1 with DEVICE_RESET[7] set was accepted by the device
ResetTookEffect(log) ==
  \E i \in 1 .. Len(log) :
    /\ log[i].k = "W" /\ log[i].reg = PWR_MGMT_1 /\ log[i].st = HAL_OK
    /\ Bit(log[i].data[1], 7) = 1

\* C11: bit 0 of INT_ENABLE is clear at power-on, becomes set only in a
\* successful EnableDataReadyInterrupts, and is clear after every successful
\* DisableDataReadyInterrupts and after every call in which a device reset
\* took effect; Init issues no access to INT_ENABLE, and after a successful
\* Init the bit is clear.
C11_DataReadyOnlyByEnable ==
  /\ ~DataReady(regs)
  /\ [][ /\ (DataReady(regs') /\ ~DataReady(regs)) =>
              (last'.op = "EnableDataReadyInterrupts" /\ last'.ret = HAL_OK)
         /\ (last'.op = "DisableDataReadyInterrupts" /\ last'.ret = HAL_OK) =>
              ~DataReady(regs')
         /\ ResetTookEffect(last'.log) => ~DataReady(regs')
         /\ last'.op = "Init" =>
              /\ \A i \in 1 .. Len(last'.log) :
                   last'.log[i].k = "D" \/ last'.log[i].reg # INT_ENABLE
              /\ last'.ret = HAL_OK => ~DataReady(regs')
              /\ ~ResetTookEffect(last'.log) =>
                   regs'[INT_ENABLE] = regs[INT_ENABLE]
     ]_vars

\* an Init whose reset write failed after interrupts had been enabled: the
\* data-ready interrupt is still on when Init returns its error
C11_Witness ==
  /\ last.op = "Init"
  /\ last.ret # HAL_OK
  /\ Len(last.log) = 1
  /\ DataReady(regs)

\* the bytes INT_ENABLE can hold when the operations are called
IntBytes == 0 .. 255

InitInt ==
  /\ regs \in {[ResetRegs EXCEPT ![INT_ENABLE] = v] : v \in IntBytes}
  /\ accel_offset = Zero3
  /\ gyro_offset = Zero3
  /\ last = NoCall
  /\ cal = NoCal
  /\ thr = NoThreads

NextInt ==
  \/ DoEnableDataReadyInterrupts
  \/ DoDisableDataReadyInterrupts

SpecInt == InitInt /\ [][NextInt]_vars

\* C12: EnableDataReadyInterrupts and DisableDataReadyInterrupts each issue
\* exactly one bus access, a one-byte write of INT_ENABLE (0x01 and 0x00)
\* with no read before it; whatever byte the register held, it holds 0x01
\* after a successful enable and 0x00 after a successful disable, and the
\* other registers are unchanged.
C12_WholeByteWrite ==
  [][ /\ last'.op = "EnableDataReadyInterrupts" =>
           /\ last'.log = << Entry("W", INT_ENABLE, 1, <<1>>, last'.ret) >>
           /\ last'.ret = HAL_OK => regs' = [regs EXCEPT ![INT_ENABLE] = 1]
      /\ last'.op = "DisableDataReadyInterrupts" =>
           /\ last'.log = << Entry("W", INT_ENABLE, 1, <<0>>, last'.ret) >>
           /\ last'.ret = HAL_OK => regs' = [regs EXCEPT ![INT_ENABLE] = 0]
    ]_vars

\* a successful enable: the register holds 0x01 (the bytes 0 .. 255 are all
\* prior values of the register under SpecInt)
C12_Witness ==
  /\ last.op = "EnableDataReadyInterrupts"
  /\ last.ret = HAL_OK
  /\ regs[INT_ENABLE] = 1

(***************************************************************************)
(* Calibration offsets.                                                    *)
(***************************************************************************)
\* the public operations other than InitOffsetCalibration
NonCalibratingOps ==
  {"Init", "Sleep", "WakeUp", "EnableDataReadyInterrupts",
   "DisableDataReadyInterrupts", "ReadWhoAmI", "ReadRawAccel", "ReadRawGyro",
   "ReadAccel", "ReadGyro", "ReadTemp", "PrintOffsets"}

\* C13: the six offsets are zero at program start and change only in a call
\* of InitOffsetCalibration that returns HAL_OK; Init, Sleep, WakeUp,
\* Enable/DisableDataReadyInterrupts, ReadWhoAmI, ReadRawAccel, ReadRawGyro,
\* ReadAccel, ReadGyro, ReadTemp and PrintOffsets leave all six unchanged
\* whether they succeed or fail.
C13_OffsetsFrame ==
  /\ accel_offset = Zero3 /\ gyro_offset = Zero3
  /\ [][ /\ <<accel_offset', gyro_offset'>> # <<accel_offset, gyro_offset>> =>
              /\ last = NoCall
              /\ last'.op = "InitOffsetCalibration"
              /\ last'.ret = HAL_OK
         /\ last'.op \in NonCalibratingOps =>
              <<accel_offset', gyro_offset'>> = <<accel_offset, gyro_offset>>
         /\ (last'.op = "InitOffsetCalibration" /\ last'.ret # HAL_OK) =>
              <<accel_offset', gyro_offset'>> = <<accel_offset, gyro_offset>>
     ]_vars

\* an Init that failed on a calibrated driver: the offsets are still the
\* stored ones
C13_Witness ==
  /\ last.op = "Init"
  /\ last.ret # HAL_OK
  /\ accel_offset # Zero3
  /\ gyro_offset # Zero3

(***************************************************************************)
(* Measurement reads.                                                      *)
(***************************************************************************)
\* start address and length of the one read each measurement operation issues
ReadShape ==
  [ReadAccel |-> <<59, 6>>, ReadRawAccel |-> <<59, 6>>,
   ReadGyro |-> <<67, 6>>, ReadRawGyro |-> <<67, 6>>,
   ReadTemp |-> <<65, 2>>, ReadWhoAmI |-> <<117, 1>>]

\* C14: ReadAccel, ReadGyro, ReadRawAccel, ReadRawGyro, ReadTemp and
\* ReadWhoAmI issue no register write: the call log of each is exactly one
\* read transaction (6 bytes at 0x3B, 6 bytes at 0x43, 2 bytes at 0x41,
\* 1 byte at 0x75), and every device register is the same after the call as
\* before it.
C14_ReadsOnly ==
  [][ last'.op \in DOMAIN ReadShape =>
        /\ regs' = regs
        /\ Len(last'.log) = 1
        /\ last'.log[1].k = "R"
        /\ last'.log[1].reg = ReadShape[last'.op][1]
        /\ last'.log[1].len = ReadShape[last'.op][2]
        /\ last'.log[1].st = HAL_OK =>
             Len(last'.log[1].data) = ReadShape[last'.op][2]
    ]_vars

\* a successful raw gyroscope read on a configured device
C14_Witness ==
  /\ last.op = "ReadRawGyro"
  /\ last.ret = HAL_OK
  /\ regs[INT_PIN_CFG] = 176
  /\ regs[CONFIG] = 4

(***************************************************************************)
(* Full-scale range and sensitivity.                                       *)
(***************************************************************************)
\* MPU6500_ACCEL_FS_* with MPU6500_ACCEL_SENS_* (LSB/g)
AccelRanges == { <<0, 16384>>, <<8, 8192>>, <<16, 4096>>, <<24, 2048>> }

\* MPU6500_GYRO_FS_* with MPU6500_GYRO_SENS_* in tenths of LSB/(deg/s)
GyroRanges_x10 == { <<0, 1310>>, <<8, 655>>, <<16, 328>>, <<24, 164>> }

\* the range codes the device holds are the ones of the sensitivities the
\* conversions divide by
Synced(rg) ==
  /\ <<rg[ACCEL_CONFIG], MPU6500_ACCEL_SENS>> \in AccelRanges
  /\ <<rg[GYRO_CONFIG], MPU6500_GYRO_SENS_x10>> \in GyroRanges_x10

\* the log holds a write of ACCEL_CONFIG or GYRO_CONFIG
WritesRange(log) ==
  \E i \in 1 .. Len(log) :
    log[i].k = "W" /\ log[i].reg \in {ACCEL_CONFIG, GYRO_CONFIG}

DoReadWhoAmIAnyByte == ReadWhoAmIFrom(0 .. 255)

NextId ==
  \/ Idle /\ DoReadWhoAmIAnyByte
  \/ Return

SpecId == Init /\ [][NextId]_vars

\* C16: when ReadWhoAmI returns HAL_OK, the byte it delivers is exactly the
\* byte the transport returned for its one-byte read of register 0x75, for
\* every byte 0 .. 255.
C16_IdentityVerbatim ==
  (last.op = "ReadWhoAmI" /\ last.ret = HAL_OK) =>
    /\ Len(last.log) = 1
    /\ last.log[1].k = "R" /\ last.log[1].reg = 117 /\ last.log[1].len = 1
    /\ Len(last.out) = 1
    /\ last.out[1] \in 0 .. 255
    /\ last.out = last.log[1].data

\* the transport returned 0x71, not the identity of an MPU6500, and
\* ReadWhoAmI delivered it
C16_Witness ==
  /\ last.op = "ReadWhoAmI"
  /\ last.ret = HAL_OK
  /\ last.log[1].data = <<113>>
  /\ last.out = <<113>>

(***************************************************************************)
(* Order of the calibration's steps.                                       *)
(***************************************************************************)
RECURSIVE LoggedSums(_, _)
\* the six sums over the first n samples a complete calibration log holds
LoggedSums(log, n) ==
  IF n = 0 THEN [accel_sum |-> Zero3, gyro_sum |-> Zero3]
  ELSE LET p == LoggedSums(log, n - 1) IN
       Accumulate(p.accel_sum, p.gyro_sum,
                  Signed3(log[3 * n].data), Signed3(log[3 * n + 1].data))

\* entry i of the log is a block read of the accelerometer or the gyroscope
IsSampleRead(log, i) ==
  log[i].k = "R" /\ log[i].reg \in {ACCEL_XOUT_H, GYRO_XOUT_H}

\* C17: the log of a successful InitOffsetCalibration(N), N > 0, is the
\* WakeUp's read and write of PWR_MGMT_1, then exactly N times accelerometer
\* block read, gyroscope block read, 5-unit delay, and nothing else; the
\* offsets stored are those of the sums over all N samples, so the store
\* follows the last iteration; in every calibration log, successful or not,
\* a sample block read comes only after both WakeUp accesses returned HAL_OK.
C17_CalibrationOrder ==
  last.op = "InitOffsetCalibration" =>
    /\ last.ret = HAL_OK =>
         /\ last.arg > 0
         /\ CompleteSampling(last.log, last.arg)
         /\ last.log[1].k = "R" /\ last.log[1].reg = PWR_MGMT_1
         /\ last.log[2].k = "W" /\ last.log[2].reg = PWR_MGMT_1
         /\ LET s == LoggedSums(last.log, last.arg)
                o == StoreOffsets(s.accel_sum, s.gyro_sum, last.arg)
            IN accel_offset = o.accel_offset /\ gyro_offset = o.gyro_offset
    /\ \A i \in 1 .. Len(last.log) :
         IsSampleRead(last.log, i) =>
           /\ i >= 3
           /\ last.log[1].k = "R" /\ last.log[1].reg = PWR_MGMT_1
           /\ last.log[1].st = HAL_OK
           /\ last.log[2].k = "W" /\ last.log[2].reg = PWR_MGMT_1
           /\ last.log[2].st = HAL_OK
           /\ \A j \in 1 .. i - 1 : last.log[j].st = HAL_OK

\* a successful calibration of three samples that are not all the same, on a
\* device that was asleep
C17_Witness ==
  /\ last.op = "InitOffsetCalibration"
  /\ last.ret = HAL_OK
  /\ last.arg = 3
  /\ last.log[1].data = <<65>>
  /\ last.log[3].data # last.log[6].data

(***************************************************************************)
(* The stored means.                                                       *)
(***************************************************************************)
\* the quotient of the signed division s / n of C, n > 0: truncated toward
\* zero
TruncDiv(s, n) == IF s >= 0 THEN s \div n ELSE -((-s) \div n)

\* C18: a successful InitOffsetCalibration(N), N > 0, stores on each axis the
\* signed integer mean sum / N of the values accumulated over its N samples
\* (the raw value; for accelerometer Z the raw value minus the count of 1 g),
\* and that mean lies in the signed 16-bit range, so the stored offset is
\* the mean itself and not a wrapped value.
C18_SignedMean ==
  (last.op = "InitOffsetCalibration" /\ last.ret = HAL_OK) =>
    LET s == LoggedSums(last.log, last.arg) IN
    \A i \in 1 .. 3 :
      /\ TruncDiv(s.accel_sum[i], last.arg) \in -32768 .. 32767
      /\ TruncDiv(s.gyro_sum[i], last.arg) \in -32768 .. 32767
      /\ accel_offset[i] = TruncDiv(s.accel_sum[i], last.arg)
      /\ gyro_offset[i] = TruncDiv(s.gyro_sum[i], last.arg)

(***************************************************************************)
(* The sampling loop pass by pass, for long calibrations.  `cal` holds the *)
(* locals of MPU6500_InitOffsetCalibration during its loop; every block    *)
(* read succeeds.  The loop is entered at pass 0, and at passes a          *)
(* calibration reaches when the device has returned the same sample in     *)
(* every pass so far.                                                      *)
(***************************************************************************)
\* number of passes followed from each starting pass
SumWindow == 40

\* INT32_MAX and INT32_MIN
Int32Max == 32767 * 65536 + 65535
Int32Min == (-Int32Max) - 1

\* the int32_t addition a + x overflows (a an int32_t, x an int)
AddOverflows(a, x) == IF x >= 0 THEN a > Int32Max - x ELSE a < Int32Min - x

\* the values one pass adds to accel_sum[0..2] and gyro_sum[0..2]
Addends(raw_accel, raw_gyro) ==
  << raw_accel[1], raw_accel[2], raw_accel[3] - OneG,
     raw_gyro[1], raw_gyro[2], raw_gyro[3] >>

\* outputs of the device during one pass: both sensors at the negative or at
\* the positive end of their range
SumSamples == { [a |-> <<-32768, -32768, -32768>>, g |-> <<-32768, -32768, -32768>>],
                [a |-> <<32767, 32767, 32767>>, g |-> <<32767, 32767, 32767>>] }

\* passes at which the loop is entered, with the sample the device returned
\* in every pass before
LoopStarts ==
  { [i |-> 0, s |-> [a |-> Zero3, g |-> Zero3]],
    [i |-> 52400, s |-> [a |-> <<-32768, -32768, -32768>>,
                         g |-> <<-32768, -32768, -32768>>]],
    [i |-> 65500, s |-> [a |-> <<32767, 32767, 32767>>,
                         g |-> <<32767, 32767, 32767>>]] }

\* the sums after st.i passes that all read the sample st.s
SumsAt(st) ==
  LET d == Addends(st.s.a, st.s.g) IN
  [accel_sum |-> << st.i * d[1], st.i * d[2], st.i * d[3] >>,
   gyro_sum |-> << st.i * d[4], st.i * d[5], st.i * d[6] >>]

InitSum ==
  /\ regs = ResetRegs
  /\ accel_offset = Zero3
  /\ gyro_offset = Zero3
  /\ last = NoCall
  /\ \E st \in LoopStarts :
       cal = [i |-> st.i, samples |-> st.i + SumWindow,
              accel_sum |-> SumsAt(st).accel_sum,
              gyro_sum |-> SumsAt(st).gyro_sum, ub |-> FALSE]
  /\ thr = NoThreads

\* variant: the accelerometer X offset is updated in every pass with the mean
\* so far, not only in the store after the loop
CalPass_Incremental ==
  /\ ~cal.ub
  /\ cal.i < cal.samples
  /\ \E s \in SumSamples :
       LET raw_accel == Combine3(Block6(s.a))
           raw_gyro == Combine3(Block6(s.g))
           acc == Accumulate(cal.accel_sum, cal.gyro_sum, raw_accel, raw_gyro)
       IN /\ cal' = [cal EXCEPT !.i = @ + 1,
                                !.accel_sum = acc.accel_sum,
                                !.gyro_sum = acc.gyro_sum]
          /\ accel_offset' =
               [accel_offset EXCEPT ![1] = MeanOffset(acc.accel_sum[1], cal.i + 1)]
  /\ UNCHANGED <<regs, gyro_offset, last, thr>>

\* one pass of the loop: two block reads and the six additions
CalPass ==
  /\ ~cal.ub
  /\ cal.i < cal.samples
  /\ \E s \in SumSamples :
       LET raw_accel == Combine3(Block6(s.a))
           raw_gyro == Combine3(Block6(s.g))
           d == Addends(raw_accel, raw_gyro)
           overflow == \/ \E j \in 1 .. 3 : AddOverflows(cal.accel_sum[j], d[j])
                       \/ \E j \in 1 .. 3 : AddOverflows(cal.gyro_sum[j], d[j + 3])
           acc == Accumulate(cal.accel_sum, cal.gyro_sum, raw_accel, raw_gyro)
       IN cal' = IF overflow THEN [cal EXCEPT !.ub = TRUE]
                 ELSE [cal EXCEPT !.i = @ + 1,
                                  !.accel_sum = acc.accel_sum,
                                  !.gyro_sum = acc.gyro_sum]
  /\ UNCHANGED <<regs, accel_offset, gyro_offset, last, thr>>

NextSum == CalPass

SpecSum == InitSum /\ [][NextSum]_vars

\* C19: whatever nonzero sample count was requested and whatever signed
\* 16-bit samples the device returns, none of the six running sums leaves
\* the range of a signed 32-bit integer: no addition of the loop overflows.
C19_SumsInInt32 ==
  /\ ~cal.ub
  /\ \A j \in 1 .. 3 : /\ cal.accel_sum[j] \in Int32Min .. Int32Max
                       /\ cal.gyro_sum[j] \in Int32Min .. Int32Max

(***************************************************************************)
(* Read-modify-write of PWR_MGMT_1, from every byte the register can hold. *)
(***************************************************************************)
NextRmw ==
  \/ DoSleep
  \/ DoWakeUp
  \/ DoInit

SpecRmw == InitPwr /\ [][NextRmw]_vars

\* accesses r and r + 1 of acc are a read of PWR_MGMT_1 and, if the read
\* returned HAL_OK, a write of the byte read with bit n forced to x and the
\* other seven bits kept; after a failed read acc ends
ReadThenWrite(acc, r, n, x) ==
  /\ acc[r].k = "R" /\ acc[r].reg = PWR_MGMT_1 /\ acc[r].len = 1
  /\ acc[r].st # HAL_OK => Len(acc) = r
  /\ acc[r].st = HAL_OK =>
       /\ Len(acc) >= r + 1
       /\ acc[r + 1].k = "W" /\ acc[r + 1].reg = PWR_MGMT_1
       /\ SameBut(acc[r + 1].data[1], acc[r].data[1], n, x)

\* C20: in Sleep, in WakeUp and in the temperature-enable step of Init, the
\* read of PWR_MGMT_1 comes before the write, the byte written is the byte
\* read with one bit forced (bit 6 to 1, bit 6 to 0, bit 4 to 0) and the
\* other seven bits as read, and a failed read is followed by no write, so
\* PWR_MGMT_1 keeps its value; when Init returns HAL_OK, PWR_MGMT_1 has bit
\* 6 and bit 4 clear and the clock-source field CLKSEL[2:0] = 1.
C20_ReadModifyWrite ==
  [][ /\ last'.op \in {"Sleep", "WakeUp"} =>
           /\ ReadThenWrite(last'.log, 1, 6, IF last'.op = "Sleep" THEN 1 ELSE 0)
           /\ Len(last'.log) <= 2
           /\ last'.log[1].st = HAL_OK => last'.log[1].data = <<regs[PWR_MGMT_1]>>
           /\ last'.log[1].st # HAL_OK => regs' = regs
      /\ last'.op = "Init" =>
           LET acc == Accesses(last'.log) IN
           /\ Len(acc) >= 7 =>
                /\ ReadThenWrite(acc, 7, 4, 0)
                /\ acc[7].st # HAL_OK => regs'[PWR_MGMT_1] = 1
           /\ \A i \in 3 .. Len(acc) :
                acc[i].reg = PWR_MGMT_1 => i \in {7, 8}
           /\ last'.ret = HAL_OK =>
                /\ Bit(regs'[PWR_MGMT_1], 6) = 0
                /\ Bit(regs'[PWR_MGMT_1], 4) = 0
                /\ regs'[PWR_MGMT_1] % 8 = 1
    ]_vars

\* the read of a WakeUp failed on a sleeping device with the temperature
\* sensor off: no write followed and the register still holds 0x51
C20_Witness ==
  /\ last.op = "WakeUp"
  /\ last.ret # HAL_OK
  /\ Len(last.log) = 1
  /\ regs[PWR_MGMT_1] = 81

(***************************************************************************)
(* Raw reads, for every byte pair the transport can return.                *)
(***************************************************************************)
\* every byte pair, high byte first
BytePairs == { <<hi, lo>> : hi \in 0 .. 255, lo \in 0 .. 255 }

\* 6-byte blocks in which every byte pair occurs on each of the three axes
AllPairBlocks ==
  { << p[1], p[2], p[2], p[1], 255 - p[1], 255 - p[2] >> : p \in BytePairs }

\* offsets a calibration of one sample has stored
InitRaw ==
  /\ regs = ResetRegs
  /\ accel_offset = <<100, -200, 300>>
  /\ gyro_offset = <<-7, 8, -9>>
  /\ last = NoCall
  /\ cal = NoCal
  /\ thr = NoThreads

DoReadRawAccelAnyBytes == ReadRawAccelFrom(AllPairBlocks)

DoReadRawGyroAnyBytes == ReadRawGyroFrom(AllPairBlocks)

DoReadTempAnyBytes == ReadTempFrom(BytePairs)

NextRaw ==
  \/ Idle /\ DoReadRawAccelAnyBytes
  \/ Idle /\ DoReadRawGyroAnyBytes
  \/ Idle /\ DoReadTempAnyBytes
  \/ Return

SpecRaw == InitRaw /\ [][NextRaw]_vars

\* C21: for every byte pair (hi, lo) the transport returns, a successful
\* ReadRawAccel, ReadRawGyro or ReadTemp delivers hi * 256 + lo read as a
\* two's-complement signed 16-bit integer, X, Y, Z from the byte pairs 0-1,
\* 2-3, 4-5 of the block; the raw reads deliver the integer itself, whatever
\* the stored offsets are, with no offset subtracted and no division by a
\* sensitivity.
C21_BigEndianSigned ==
  /\ (last.op \in {"ReadRawAccel", "ReadRawGyro"} /\ last.ret = HAL_OK) =>
       LET d == last.log[1].data IN
       /\ Len(d) = 6
       /\ last.out = << SignedOf(d[1], d[2]), SignedOf(d[3], d[4]),
                        SignedOf(d[5], d[6]) >>
       /\ \A i \in 1 .. 3 : last.out[i] \in -32768 .. 32767
  /\ (last.op = "ReadTemp" /\ last.ret = HAL_OK) =>
       LET d == last.log[1].data IN
       /\ Len(d) = 2
       /\ last.out = << SignedOf(d[1], d[2]) >>

\* a raw accelerometer read of the block 80 01 01 80 7F FE on a calibrated
\* driver: X = -32767, Y = 384, Z = 32766, the offsets not subtracted
C21_Witness ==
  /\ last.op = "ReadRawAccel"
  /\ last.ret = HAL_OK
  /\ last.log[1].data = <<128, 1, 1, 128, 127, 254>>
  /\ last.out = <<-32767, 384, 32766>>
  /\ accel_offset = <<100, -200, 300>>

(***************************************************************************)
(* Two threads of control: one runs MPU6500_InitOffsetCalibration (its     *)
(* loop by CalPass, then the six assignments of the store one at a time),  *)
(* the other calls ReadAccel / ReadGyro, followed statement by statement.  *)
(* The callers either use a lock (thr.locking), held across the store and  *)
(* across each conversion, or none.                                        *)
(***************************************************************************)
\* largest sample count of the calibration
ConcMaxSamples == 2

\* the offsets an earlier calibration has stored
PreOffsets == [accel |-> <<100, -200, 300>>, gyro |-> <<-7, 8, -9>>]

\* X, Y, Z outputs of the device for the conversion's block read
ConvTriples == { <<16384, -16384, 300>> }

InitConc ==
  /\ regs = ResetRegs
  /\ accel_offset = PreOffsets.accel
  /\ gyro_offset = PreOffsets.gyro
  /\ last = NoCall
  /\ \E n \in 1 .. ConcMaxSamples : cal = [NoCal EXCEPT !.samples = n]
  /\ \E l \in BOOLEAN : thr = [NoThreads EXCEPT !.locking = l]

\* the lock after the thread `who` took it (keep = TRUE) or gave it back
LockAfter(who, keep) ==
  IF thr.locking THEN (IF keep THEN who ELSE "free") ELSE thr.lock

\* the next of the six assignments accel_offset[0..2], gyro_offset[0..2]
StoreStep ==
  /\ cal.samples > 0 /\ cal.i = cal.samples /\ ~cal.ub
  /\ thr.stored < 6
  /\ thr.locking => thr.lock = (IF thr.stored = 0 THEN "free" ELSE "cal")
  /\ LET k == thr.stored + 1
         o == StoreOffsets(cal.accel_sum, cal.gyro_sum, cal.samples)
     IN /\ accel_offset' = IF k <= 3
                           THEN [accel_offset EXCEPT ![k] = o.accel_offset[k]]
                           ELSE accel_offset
        /\ gyro_offset' = IF k > 3
                          THEN [gyro_offset EXCEPT ![k - 3] = o.gyro_offset[k - 3]]
                          ELSE gyro_offset
        /\ thr' = [thr EXCEPT !.stored = k, !.lock = LockAfter("cal", k < 6)]
  /\ UNCHANGED <<regs, last, cal>>

\* the second thread enters ReadAccel or ReadGyro
ConvCall ==
  /\ last = NoCall
  /\ thr.conv.pc = 0
  /\ thr.locking => thr.lock = "free"
  /\ \E op \in {"ReadAccel", "ReadGyro"} :
       thr' = [thr EXCEPT !.conv = [NoConv EXCEPT !.pc = 1, !.op = op],
                          !.lock = LockAfter("conv", TRUE)]
  /\ UNCHANGED <<regs, accel_offset, gyro_offset, last, cal>>

\* HAL_I2C_Mem_Read of the 6-byte block; a failed read returns its status
ConvRead ==
  /\ thr.conv.pc = 1
  /\ \E plan \in Plans(1), t \in ConvTriples :
       LET base == IF thr.conv.op = "ReadAccel" THEN ACCEL_XOUT_H ELSE GYRO_XOUT_H
           r == MemRead(NewBus(regs, plan, << Block6(t) >>), base, 6)
       IN IF r.status # HAL_OK
          THEN /\ last' = [op |-> thr.conv.op, arg |-> 0, log |-> r.bus.log,
                           ret |-> r.status, out |-> <<>>]
               /\ thr' = [thr EXCEPT !.conv.pc = 0, !.conv.log = r.bus.log,
                                     !.lock = LockAfter("conv", FALSE)]
          ELSE /\ last' = last
               /\ thr' = [thr EXCEPT !.conv.pc = 2, !.conv.buffer = r.data,
                                     !.conv.log = r.bus.log]
  /\ UNCHANGED <<regs, accel_offset, gyro_offset, cal>>

\* raw_x / raw_y / raw_z = (int16_t)((hi << 8) | lo) - offset[k]
ConvSubtract ==
  /\ thr.conv.pc \in 2 .. 4
  /\ LET k == thr.conv.pc - 1
         off == IF thr.conv.op = "ReadAccel" THEN accel_offset[k] ELSE gyro_offset[k]
         b == thr.conv.buffer
     IN thr' = [thr EXCEPT !.conv.pc = @ + 1,
                           !.conv.raw = Append(@, RawMinusOffset(b[2 * k - 1], b[2 * k], off)),
                           !.conv.used = Append(@, off)]
  /\ UNCHANGED <<regs, accel_offset, gyro_offset, last, cal>>

\* the three divisions and return HAL_OK
ConvReturn ==
  /\ thr.conv.pc = 5
  /\ LET sens == IF thr.conv.op = "ReadAccel" THEN MPU6500_ACCEL_SENS * 10
                 ELSE MPU6500_GYRO_SENS_x10
         raw == thr.conv.raw
     IN last' = [op |-> thr.conv.op, arg |-> 0, log |-> thr.conv.log, ret |-> HAL_OK,
                 out |-> << ToPhysical(raw[1], sens), ToPhysical(raw[2], sens),
                            ToPhysical(raw[3], sens) >>]
  /\ thr' = [thr EXCEPT !.conv.pc = 0, !.lock = LockAfter("conv", FALSE)]
  /\ UNCHANGED <<regs, accel_offset, gyro_offset, cal>>

\* the caller of the conversion takes its result
ConvTake ==
  /\ last # NoCall
  /\ thr.conv.pc = 0
  /\ last' = NoCall
  /\ thr' = [thr EXCEPT !.conv = NoConv]
  /\ UNCHANGED <<regs, accel_offset, gyro_offset, cal>>

NextConc ==
  \/ CalPass
  \/ StoreStep
  \/ ConvCall
  \/ ConvRead
  \/ ConvSubtract
  \/ ConvReturn
  \/ ConvTake

SpecConc == InitConc /\ [][NextConc]_vars

\* the three offsets `used` are those of the modality of op before the
\* calibration, or those the calibration stores
FromOneCalibration(op, used) ==
  LET pre == IF op = "ReadAccel" THEN PreOffsets.accel ELSE PreOffsets.gyro
      o == StoreOffsets(cal.accel_sum, cal.gyro_sum, cal.samples)
      post == IF op = "ReadAccel" THEN o.accel_offset ELSE o.gyro_offset
  IN \/ used = pre
     \/ cal.i = cal.samples /\ used = post

\* C22: when the callers hold a lock across the six-assignment store of
\* InitOffsetCalibration and across each conversion, every ReadAccel /
\* ReadGyro that returns HAL_OK has subtracted three offsets that all come
\* from the same calibration (all three from before the store or all three
\* from after it), and its outputs are computed from them.  Without the lock
\* a conversion can subtract a mix of both: C22_Witness.
C22_LockedConsistent ==
  (thr.locking /\ last.op \in {"ReadAccel", "ReadGyro"} /\ last.ret = HAL_OK) =>
    LET used == thr.conv.used
        d == last.log[1].data
        sens == IF last.op = "ReadAccel" THEN MPU6500_ACCEL_SENS * 10
                ELSE MPU6500_GYRO_SENS_x10
    IN /\ Len(used) = 3
       /\ FromOneCalibration(last.op, used)
       /\ \A k \in 1 .. 3 :
            last.out[k] =
              << Int16(SignedOf(d[2 * k - 1], d[2 * k]) - used[k]) * 10, sens >>

\* without the lock, a ReadAccel interleaved with the store returned HAL_OK
\* after subtracting the new X offset and the old Y and Z offsets
C22_Witness ==
  /\ ~thr.locking
  /\ last.op = "ReadAccel"
  /\ last.ret = HAL_OK
  /\ Len(thr.conv.used) = 3
  /\ ~FromOneCalibration("ReadAccel", thr.conv.used)
  /\ thr.conv.used[1] # PreOffsets.accel[1]
  /\ thr.conv.used[2] = PreOffsets.accel[2]
  /\ thr.conv.used[3] = PreOffsets.accel[3]

(***************************************************************************)
(* Calibration run again on the same samples.                              *)
(***************************************************************************)
\* the blocks the device returned during a calibration of N samples that
\* ran to its end, in the order read
FeedOf(log, N) ==
  LET acc == Accesses(log) IN [j \in 1 .. 2 * N |-> acc[j + 2].data]

\* offsets held before the second run
PriorOffsets == { Zero3, <<1, -1, 32767>>, <<-32768, 100, -8192>> }

\* C23: the six offsets a successful InitOffsetCalibration(N) stored are the
\* ones a run of InitOffsetCalibration(N) on the same sample sequence
\* stores, whatever the offsets held before that run are (zero, the ones
\* just stored, or any others): the result depends only on N and on the
\* samples read.
C23_IndependentOfPrior ==
  (last.op = "InitOffsetCalibration" /\ last.ret = HAL_OK) =>
    \A a0 \in PriorOffsets \cup {accel_offset} :
    \A g0 \in PriorOffsets \cup {gyro_offset} :
      LET again == MPU6500_InitOffsetCalibration(
                     NewBus(regs, [failAt |-> 0, err |-> HAL_OK],
                            FeedOf(last.log, last.arg)),
                     last.arg, a0, g0)
      IN /\ again.status = HAL_OK
         /\ again.accel_offset = accel_offset
         /\ again.gyro_offset = gyro_offset

\* a successful calibration of two different samples that stored nonzero
\* offsets on every modality
C23_Witness ==
  /\ last.op = "InitOffsetCalibration"
  /\ last.ret = HAL_OK
  /\ last.arg = 2
  /\ last.log[3].data # last.log[6].data
  /\ accel_offset \notin PriorOffsets
  /\ gyro_offset \notin PriorOffsets

====
